---- MODULE Spec2Model ----
(***************************************************************************)
(* Model of the CADalytics request relay (src/main.py): the FastAPI        *)
(* handlers health() and query(), the fence-stripping text transformation  *)
(* of query() and the json.loads call that follows it.                     *)
(*                                                                         *)
(* Text is a sequence of one-character strings.  A parsed JSON value is a  *)
(* sequence of tokens: its characters and digits are the characters of    *)
(* the text, its structure is marked by bracket tokens such as "<str" and  *)
(* "str>", so two values are equal exactly when their token sequences are. *)
(***************************************************************************)
EXTENDS Integers, Sequences, FiniteSets, TLC

(***************************************************************************)
(* Bounds of the model.                                                    *)
(***************************************************************************)
NumRequests == 1
MaxHealth == 2
MaxPieces == 5

(***************************************************************************)
(* str.replace and str.strip, as used on line 253.                         *)
(***************************************************************************)
\* The backtick character (U+0060).  A TLA+ string cannot hold it, so the
\* two-letter token stands for that one character.
BT == "BT"
Fence == <<BT, BT, BT>>
FenceJson == <<BT, BT, BT, "j", "s", "o", "n">>

\* The characters str.strip() removes (of the modelled alphabet).
Whitespace == {" ", "\t", "\n", "\r", "\f"}

RECURSIVE replace_first(_, _, _)
\* A str.replace that stops after the first occurrence (count=1).
replace_first(s, old, new) ==
    IF Len(s) < Len(old) THEN s
    ELSE IF SubSeq(s, 1, Len(old)) = old
         THEN new \o SubSeq(s, Len(old) + 1, Len(s))
         ELSE <<Head(s)>> \o replace_first(Tail(s), old, new)

RECURSIVE replace(_, _, _)
\* s.replace(old, new): every non-overlapping occurrence, left to right.
replace(s, old, new) ==
    IF Len(s) < Len(old) THEN s
    ELSE IF SubSeq(s, 1, Len(old)) = old
         THEN new \o replace(SubSeq(s, Len(old) + 1, Len(s)), old, new)
         ELSE <<Head(s)>> \o replace(Tail(s), old, new)

RECURSIVE lstrip(_)
lstrip(s) ==
    IF s # <<>> /\ Head(s) \in Whitespace THEN lstrip(Tail(s)) ELSE s

RECURSIVE rstrip(_)
rstrip(s) ==
    IF s # <<>> /\ s[Len(s)] \in Whitespace
    THEN rstrip(SubSeq(s, 1, Len(s) - 1))
    ELSE s

\* s.strip()
strip(s) == rstrip(lstrip(s))

\* cleaned = raw.replace(FenceJson, "").replace(Fence, "").strip()
FenceStrip(raw) == strip(replace(replace(raw, FenceJson, <<>>), Fence, <<>>))

(***************************************************************************)
(* json.loads on the modelled alphabet: whitespace, strings without        *)
(* escapes, integers without sign, arrays, objects and the three literals. *)
(* A result is [ok, val, end]: end is the index after the value.           *)
(***************************************************************************)
JsonWhitespace == {" ", "\t", "\n", "\r"}
ControlChars == {"\t", "\n", "\r", "\f"}
Digits == {"0", "1", "2", "3", "4", "5", "6", "7", "8", "9"}

Fail == [ok |-> FALSE, val |-> <<>>, end |-> 0]
Okay(v, e) == [ok |-> TRUE, val |-> v, end |-> e]

RECURSIVE skipws(_, _)
skipws(s, i) ==
    IF i <= Len(s) /\ s[i] \in JsonWhitespace THEN skipws(s, i + 1) ELSE i

At(s, i) == IF i >= 1 /\ i <= Len(s) THEN s[i] ELSE "EOF"

HasPrefix(s, i, lit) ==
    /\ i + Len(lit) - 1 <= Len(s)
    /\ SubSeq(s, i, i + Len(lit) - 1) = lit

RECURSIVE scanstring(_, _, _)
\* i is the index after the opening quote; strict mode rejects control
\* characters inside a string.
scanstring(s, i, acc) ==
    IF i > Len(s) THEN Fail
    ELSE IF s[i] = "\"" THEN Okay(acc, i + 1)
    ELSE IF s[i] \in ControlChars THEN Fail
    ELSE scanstring(s, i + 1, Append(acc, s[i]))

RECURSIVE scandigits(_, _)
scandigits(s, i) ==
    IF i <= Len(s) /\ s[i] \in Digits THEN scandigits(s, i + 1) ELSE i

\* (0|[1-9]\d*): the integer part of the number pattern.
scannumber(s, i) ==
    LET e == IF s[i] = "0" THEN i + 1 ELSE scandigits(s, i)
    IN Okay(<<"<num">> \o SubSeq(s, i, e - 1) \o <<"num>">>, e)

RECURSIVE putmember(_, _, _)
\* dict[k] = v: a repeated key keeps its place and takes the new value.
putmember(pairs, k, v) ==
    IF pairs = <<>> THEN <<[k |-> k, v |-> v]>>
    ELSE IF Head(pairs).k = k THEN <<[k |-> k, v |-> v]>> \o Tail(pairs)
    ELSE <<Head(pairs)>> \o putmember(Tail(pairs), k, v)

RECURSIVE membertokens(_)
membertokens(pairs) ==
    IF pairs = <<>> THEN <<>>
    ELSE <<"<key">> \o Head(pairs).k \o <<"key>">> \o Head(pairs).v
             \o membertokens(Tail(pairs))

RECURSIVE scan_once(_, _), arrayitems(_, _, _), objectmembers(_, _, _)

scan_once(s, i) ==
    LET c == At(s, i) IN
    IF c = "\"" THEN
        LET r == scanstring(s, i + 1, <<>>)
        IN IF r.ok THEN Okay(<<"<str">> \o r.val \o <<"str>">>, r.end) ELSE Fail
    ELSE IF c = "{" THEN
        LET j == skipws(s, i + 1)
        IN IF At(s, j) = "}" THEN Okay(<<"<obj", "obj>">>, j + 1)
           ELSE objectmembers(s, j, <<>>)
    ELSE IF c = "[" THEN
        LET j == skipws(s, i + 1)
        IN IF At(s, j) = "]" THEN Okay(<<"<arr", "arr>">>, j + 1)
           ELSE arrayitems(s, j, <<>>)
    ELSE IF HasPrefix(s, i, <<"n", "u", "l", "l">>) THEN Okay(<<"null">>, i + 4)
    ELSE IF HasPrefix(s, i, <<"t", "r", "u", "e">>) THEN Okay(<<"true">>, i + 4)
    ELSE IF HasPrefix(s, i, <<"f", "a", "l", "s", "e">>) THEN Okay(<<"false">>, i + 5)
    ELSE IF c \in Digits THEN scannumber(s, i)
    ELSE Fail

\* JSONArray's loop: i is at the start of the next element.
arrayitems(s, i, acc) ==
    LET r == scan_once(s, i) IN
    IF ~r.ok THEN Fail
    ELSE LET j == skipws(s, r.end) IN
         IF At(s, j) = "]"
         THEN Okay(<<"<arr">> \o acc \o r.val \o <<"arr>">>, j + 1)
         ELSE IF At(s, j) = ","
         THEN arrayitems(s, skipws(s, j + 1), acc \o r.val)
         ELSE Fail

\* JSONObject's loop: i is where the next key's opening quote must be.
objectmembers(s, i, pairs) ==
    IF At(s, i) # "\"" THEN Fail
    ELSE LET k == scanstring(s, i + 1, <<>>) IN
         IF ~k.ok THEN Fail
         ELSE LET j == skipws(s, k.end) IN
              IF At(s, j) # ":" THEN Fail
              ELSE LET v == scan_once(s, skipws(s, j + 1)) IN
                   IF ~v.ok THEN Fail
                   ELSE LET e == skipws(s, v.end)
                            ps == putmember(pairs, k.val, v.val)
                        IN IF At(s, e) = "}"
                           THEN Okay(<<"<obj">> \o membertokens(ps) \o <<"obj>">>, e + 1)
                           ELSE IF At(s, e) = ","
                           THEN objectmembers(s, skipws(s, e + 1), ps)
                           ELSE Fail

\* json.loads(s): one value between optional whitespace, nothing after it.
loads(s) ==
    LET r == scan_once(s, skipws(s, 1)) IN
    IF ~r.ok THEN Fail
    ELSE IF skipws(s, r.end) # Len(s) + 1 THEN Fail
    ELSE r

(***************************************************************************)
(* Inputs: the queries a caller posts and what the upstream API answers.   *)
(***************************************************************************)
\* Process configuration: os.environ.get("ANTHROPIC_API_KEY", "").
ApiKeys == {"", "sk-test"}

Queries ==
    { <<>>,
      <<" ">>,
      <<"\n", " ">>,
      <<"a">>,
      <<" ", "a", "\n">> }

\* Well-formed JSON documents.
DocObject == <<"{", "\"", "c", "\"", ":", "[", "]", "}">>
DocArray == <<"[", "1", ",", " ", "\"", "a", "\"", "]">>
DocNumber == <<"7">>
DocTicks == <<"{", "\"", "c", "\"", ":", "\"", BT, BT, BT, "\"", "}">>
Docs == {DocObject, DocArray, DocNumber, DocTicks}

\* Language tags of an opening fence; the empty tag is a bare fence.
TagJson == <<"j", "s", "o", "n">>
TagJs == <<"j", "s">>
Tags == {<<>>, TagJson, TagJs}

Fenced(tag, doc) == Fence \o tag \o <<"\n">> \o doc \o <<"\n">> \o Fence

\* The texts of a success response: each document bare and fenced.
WellFormedTexts == Docs \cup {Fenced(tag, doc) : tag \in Tags, doc \in Docs}

NotJson == <<"n", "o", "t", " ", "j", "s", "o", "n">>
MalformedTexts == {NotJson, <<>>, <<"{", "\"", "c", "\"">>}

Texts == WellFormedTexts \cup MalformedTexts

UpstreamStatuses == {401, 429, 500}

\* An upstream answer: the status and the content list of the payload (a
\* list of text blocks; the model keeps each block's text).
UpstreamResponses ==
    {[exc |-> "none", status_code |-> 200, content |-> <<t>>] : t \in Texts}
      \cup {[exc |-> "none", status_code |-> 200, content |-> <<>>]}
      \cup {[exc |-> "none", status_code |-> st, content |-> <<>>] :
               st \in UpstreamStatuses}

\* What httpx raises when the call does not complete.
UpstreamExceptions == {"ReadTimeout", "ConnectError"}

(***************************************************************************)
(* The handlers' pure parts.                                               *)
(***************************************************************************)
NoResult == [status_code |-> 0, detail |-> "", body |-> <<>>]
NoResponse == [exc |-> "pending", status_code |-> 0, content |-> <<>>]

HTTPException(code, msg) == [status_code |-> code, detail |-> msg, body |-> <<>>]
Returned(value) == [status_code |-> 200, detail |-> "", body |-> value]

\* An exception no handler catches: the framework answers 500.
InternalServerError == HTTPException(500, "Internal Server Error")

health_unconfigured == HTTPException(500, "API key not configured on server.")

\* def health(): return {"status": "ok"}
health == Returned(<<"<obj", "<key", "s", "t", "a", "t", "u", "s", "key>",
                     "<str", "o", "k", "str>", "obj>">>)

\* The checks of query() with the credential check first.
validate_key_first(q, key) ==
    IF key = "" THEN HTTPException(500, "API key not configured on server.")
    ELSE IF strip(q) = <<>> THEN HTTPException(400, "Query cannot be empty.")
    ELSE NoResult

\* The checks of query() without the credential check.
validate_no_key_check(q, key) ==
    IF strip(q) = <<>> THEN HTTPException(400, "Query cannot be empty.")
    ELSE NoResult

\* Lines 225-228: the two checks before the outbound call.  NoResult means
\* the handler goes on to the call.
validate(q, key) ==
    IF strip(q) = <<>> THEN HTTPException(400, "Query cannot be empty.")
    ELSE IF key = "" THEN HTTPException(500, "API key not configured on server.")
    ELSE NoResult

ANTHROPIC_URL == "https://api.anthropic.com/v1/messages"
Timeout == 30
MaxTokens == 1800

\* Lines 231-244: the arguments of client.post.
post_args(q, key) ==
    [url |-> ANTHROPIC_URL,
     timeout |-> Timeout,
     headers |-> [x_api_key |-> key,
                  anthropic_version |-> "2023-06-01",
                  content_type |-> "application/json"],
     json |-> [model |-> "claude-sonnet-4-6",
               max_tokens |-> MaxTokens,
               system |-> "SYSTEM_PROMPT",
               messages |-> <<[role |-> "user", content |-> q]>>]]

is_success(code) == code >= 200 /\ code <= 299

\* Lines 251-259: the text of the first block, cleaned and parsed.
parse_text(content) ==
    IF content = <<>> THEN InternalServerError
    ELSE LET parsed == loads(FenceStrip(content[1]))
         IN IF parsed.ok THEN Returned(parsed.val)
            ELSE HTTPException(500, "Could not parse model response.")

\* Status handling that treats 429 like any other failure.
handle_response_no_429(resp) ==
    IF ~is_success(resp.status_code) THEN HTTPException(502, "Upstream error")
    ELSE parse_text(resp.content)

\* Lines 246-259: what the handler answers once the call has returned.
handle_response(resp) ==
    IF resp.status_code = 429
    THEN HTTPException(429, "Rate limit reached. Please wait a moment.")
    ELSE IF ~is_success(resp.status_code)
    THEN HTTPException(502, "Upstream error")
    ELSE parse_text(resp.content)

(***************************************************************************)
(* State.                                                                  *)
(***************************************************************************)
VARIABLES
    ANTHROPIC_API_KEY,  \* the configured credential, "" when absent
    pc,                 \* per request: "idle", "await" or "done"
    req,                \* per request: the posted query
    sent,               \* per request: the outbound calls issued, in order
    resp,               \* per request: what the upstream call produced
    result,             \* per request: the answer to the caller
    healthCount,        \* GET /health requests served
    healthResult,       \* the answer to the latest GET /health
    stripTrace          \* a text and its successive strippings

vars == <<ANTHROPIC_API_KEY, pc, req, sent, resp, result,
          healthCount, healthResult, stripTrace>>

Requests == 1..NumRequests

relayVars == <<ANTHROPIC_API_KEY, pc, req, sent, resp, result,
               healthCount, healthResult>>

RelayStart ==
    /\ pc = [r \in Requests |-> "idle"]
    /\ req = [r \in Requests |-> <<>>]
    /\ sent = [r \in Requests |-> <<>>]
    /\ resp = [r \in Requests |-> NoResponse]
    /\ result = [r \in Requests |-> NoResult]
    /\ healthCount = 0
    /\ healthResult = NoResult

Init ==
    /\ ANTHROPIC_API_KEY \in ApiKeys
    /\ RelayStart
    /\ stripTrace = <<>>

\* POST /query arrives: the handler runs up to its first await, or raises.
QueryReceive(r, q) ==
    /\ pc[r] = "idle"
    /\ req' = [req EXCEPT ![r] = q]
    /\ LET v == validate(q, ANTHROPIC_API_KEY) IN
       IF v # NoResult
       THEN /\ result' = [result EXCEPT ![r] = v]
            /\ pc' = [pc EXCEPT ![r] = "done"]
            /\ sent' = sent
       ELSE /\ sent' = [sent EXCEPT ![r] = Append(@, post_args(q, ANTHROPIC_API_KEY))]
            /\ pc' = [pc EXCEPT ![r] = "await"]
            /\ result' = result
    /\ UNCHANGED <<ANTHROPIC_API_KEY, resp, healthCount, healthResult, stripTrace>>

\* The awaited call returns a response: the rest of the handler runs.
UpstreamReturn(r, u) ==
    /\ pc[r] = "await"
    /\ resp' = [resp EXCEPT ![r] = u]
    /\ result' = [result EXCEPT ![r] = handle_response(u)]
    /\ pc' = [pc EXCEPT ![r] = "done"]
    /\ UNCHANGED <<ANTHROPIC_API_KEY, req, sent, healthCount, healthResult, stripTrace>>

\* The awaited call raises (timeout after 30 s, or a network failure);
\* nothing in query() catches it.
UpstreamRaise(r, e) ==
    /\ pc[r] = "await"
    /\ resp' = [resp EXCEPT ![r] = [exc |-> e, status_code |-> 0, content |-> <<>>]]
    /\ result' = [result EXCEPT ![r] = InternalServerError]
    /\ pc' = [pc EXCEPT ![r] = "done"]
    /\ UNCHANGED <<ANTHROPIC_API_KEY, req, sent, healthCount, healthResult, stripTrace>>

\* GET /health
Health ==
    /\ healthCount < MaxHealth
    /\ healthCount' = healthCount + 1
    /\ healthResult' = health
    /\ UNCHANGED <<ANTHROPIC_API_KEY, pc, req, sent, resp, result, stripTrace>>

Next ==
    \/ \E r \in Requests, q \in Queries : QueryReceive(r, q)
    \/ \E r \in Requests, u \in UpstreamResponses : UpstreamReturn(r, u)
    \/ \E r \in Requests, e \in UpstreamExceptions : UpstreamRaise(r, e)
    \/ Health

Spec == Init /\ [][Next]_vars

(***************************************************************************)
(* The fence-stripping transformation on its own: a text built from at     *)
(* most MaxPieces pieces is stripped, and the result stripped again.       *)
(***************************************************************************)
Pieces ==
    { <<BT>>, Fence, TagJson, <<"j">>, <<"\n">>, <<"x">> }

RECURSIVE PieceTexts(_)
PieceTexts(n) ==
    IF n = 0 THEN {<<>>}
    ELSE {p \o t : p \in Pieces, t \in PieceTexts(n - 1)}

StripTexts == UNION {PieceTexts(n) : n \in 0..MaxPieces}

StripInit ==
    /\ ANTHROPIC_API_KEY = ""
    /\ RelayStart
    /\ stripTrace \in {<<t>> : t \in StripTexts}

\* One application of the transformation to the latest text.
StripStep ==
    /\ Len(stripTrace) < 3
    /\ stripTrace' = Append(stripTrace, FenceStrip(stripTrace[Len(stripTrace)]))
    /\ UNCHANGED relayVars

StripNext == StripStep

StripSpec == StripInit /\ [][StripNext]_vars

(***************************************************************************)
(* Properties.                                                             *)
(***************************************************************************)
Done(r) == pc[r] = "done"
Answered(r) == Done(r) /\ resp[r].exc = "none"

\* C1: a POST /query whose query is empty or only whitespace is answered
\* 400 and issues no outbound call, whatever the credential configuration.
C1_EmptyQueryRejected ==
    \A r \in Requests :
        (pc[r] # "idle" /\ strip(req[r]) = <<>>) =>
            /\ Done(r)
            /\ result[r].status_code = 400
            /\ sent[r] = <<>>

C1_Witness ==
    \E r \in Requests :
        /\ Done(r)
        /\ req[r] = <<"\n", " ">>
        /\ ANTHROPIC_API_KEY = ""
        /\ result[r].status_code = 400

\* C2 as stated: with no credential configured every POST /query, the empty
\* and whitespace-only ones included, is answered 500 with no outbound call.
C2_Original ==
    ANTHROPIC_API_KEY = "" =>
        \A r \in Requests :
            pc[r] # "idle" =>
                /\ Done(r)
                /\ result[r].status_code = 500
                /\ sent[r] = <<>>

\* C2 amended: with no credential configured no POST /query issues an
\* outbound call, and every one whose query is non-empty after trimming is
\* answered 500.
C2_NoCredential ==
    ANTHROPIC_API_KEY = "" =>
        \A r \in Requests :
            pc[r] # "idle" =>
                /\ Done(r)
                /\ sent[r] = <<>>
                /\ (strip(req[r]) # <<>> => result[r].status_code = 500)

C2_Witness ==
    \E r \in Requests :
        /\ ANTHROPIC_API_KEY = ""
        /\ Done(r)
        /\ req[r] = <<" ", "a", "\n">>
        /\ result[r].status_code = 500
        /\ sent[r] = <<>>

\* C3: an upstream answer with status 401 is surfaced to the caller as
\* HTTP 401.
C3_Upstream401 ==
    \A r \in Requests :
        (Answered(r) /\ resp[r].status_code = 401) =>
            result[r].status_code = 401

\* C4: a success response whose text, after fence-stripping, is not valid
\* JSON is surfaced to the caller as HTTP 502.
C4_Unparsable502 ==
    \A r \in Requests :
        ( /\ Answered(r)
          /\ resp[r].status_code = 200
          /\ resp[r].content # <<>>
          /\ ~loads(FenceStrip(resp[r].content[1])).ok ) =>
            result[r].status_code = 502

\* C5: when the outbound call times out or fails at the network level the
\* request ends with HTTP 502 and no other error.
C5_TransportFailure502 ==
    \A r \in Requests :
        resp[r].exc \in UpstreamExceptions =>
            /\ Done(r)
            /\ result[r].status_code = 502

\* C6: an upstream answer with status 429 is surfaced as HTTP 429, and no
\* request ever issues more than one outbound call.
C6_RateLimitedNoRetry ==
    \A r \in Requests :
        /\ Len(sent[r]) <= 1
        /\ (Answered(r) /\ resp[r].status_code = 429) =>
               /\ result[r].status_code = 429
               /\ Len(sent[r]) = 1

C6_Witness ==
    \E r \in Requests :
        /\ Answered(r)
        /\ resp[r].status_code = 429
        /\ result[r].status_code = 429
        /\ Len(sent[r]) = 1

\* C7: a success response whose text is a well-formed JSON document, bare
\* or between an opening fence with any language tag and a closing fence,
\* is answered 200 with exactly the parsed value of that document.
C7_DocumentReturnedUnmodified ==
    \A r \in Requests :
        (Answered(r) /\ resp[r].status_code = 200) =>
            \A d \in Docs :
                ( \/ resp[r].content = <<d>>
                  \/ \E tag \in Tags : resp[r].content = <<Fenced(tag, d)>> ) =>
                    result[r] = Returned(loads(d).val)

\* C8: the outbound request carries a single user-role message whose
\* content is the trimmed query.
C8_ContentIsTrimmedQuery ==
    \A r \in Requests :
        sent[r] # <<>> =>
            sent[r][1].json.messages =
                <<[role |-> "user", content |-> strip(req[r])]>>

\* C9: fence-stripping is idempotent: stripping a text twice gives the same
\* text as stripping it once.
C9_StripIdempotent ==
    Len(stripTrace) = 3 => stripTrace[3] = stripTrace[2]

C9_Witness ==
    /\ Len(stripTrace) = 3
    /\ stripTrace[1] = Fence \o TagJson \o <<"\n", "x">> \o Fence
    /\ stripTrace[2] = <<"x">>
    /\ stripTrace[3] = <<"x">>

\* C10: every GET /health is answered 200 with the body {"status":"ok"}
\* and issues no outbound call, whatever the credential configuration and
\* whatever POST /query requests are in flight.
C10_HealthAlwaysOk ==
    [][healthCount' # healthCount =>
         /\ healthResult'.status_code = 200
         /\ healthResult'.body =
                <<"<obj", "<key", "s", "t", "a", "t", "u", "s", "key>",
                  "<str", "o", "k", "str>", "obj>">>
         /\ sent' = sent]_vars

C10_Witness ==
    /\ healthCount > 0
    /\ healthResult.status_code = 200
    /\ ANTHROPIC_API_KEY = ""
    /\ \E r \in Requests : Done(r) /\ result[r].status_code = 400
====
